---- MODULE Spec2Model ----
(***************************************************************************)
(* Model of the roadmap backend (src/index.js): the LLM-output recovery    *)
(* pipeline (extractJSONBlock, preRepairJSON, JSON.parse, normalizeRoadmap *)
(* with normalizeId and explodeBrokenItemObject) and the request handlers  *)
(* of POST /api/roadmap and DELETE /api/roadmap/:id around the Firestore   *)
(* cache.                                                                  *)
(*                                                                         *)
(* A JavaScript string is a sequence of characters; a character is a       *)
(* one-character TLA+ string for printable ASCII (the grave accent, which  *)
(* a TLA+ string cannot hold, is "BACKTICK"), or one of the named          *)
(* characters of NamedChars.  CodeOf gives each its UTF-16 code unit, and  *)
(* the character classes of the source's regular expressions are stated    *)
(* on code units.                                                          *)
(***************************************************************************)
EXTENDS Integers, Sequences, FiniteSets, TLC

VARIABLES
  stage,    \* position of a pipeline run: the stage that runs next, or "done"
  input,    \* the value the pipeline run was given
  arg,      \* the value the next stage receives; for normalizeRoadmap the
            \* parsed object itself, which the call works on in place
  ret,      \* what the last stage returned or threw
  cache,    \* Firestore collection "roadmaps": key -> stored record or Absent
  req,      \* per request of POST /api/roadmap: its position and locals
  made      \* history: the <<key, document>> pairs normalizeRoadmap returned

vars == <<stage, input, arg, ret, cache, req, made>>

(***************************************************************************)
(* Characters                                                              *)
(***************************************************************************)
Printable ==
  <<
     " ", "!", "\"", "#", "$", "%", "&", "'", "(", ")", "*", "+", ",", "-", ".", "/",
     "0", "1", "2", "3", "4", "5", "6", "7", "8", "9", ":", ";", "<", "=", ">", "?",
     "@", "A", "B", "C", "D", "E", "F", "G", "H", "I", "J", "K", "L", "M", "N", "O",
     "P", "Q", "R", "S", "T", "U", "V", "W", "X", "Y", "Z", "[", "\\", "]", "^", "_",
     "BACKTICK", "a", "b", "c", "d", "e", "f", "g", "h", "i", "j", "k", "l", "m", "n", "o",
     "p", "q", "r", "s", "t", "u", "v", "w", "x", "y", "z", "{", "|", "}", "~"
  >>

\* Characters outside printable ASCII, by name, with their code units.
NamedChars ==
  { <<"\t", 9>>, <<"\n", 10>>, <<"\f", 12>>, <<"\r", 13>>, <<"NUL", 0>>, <<"BS", 8>>,
    <<"ESC", 27>>, <<"DEL", 127>>, <<"CSI", 155>>, <<"NBSP", 160>>,
    <<"EACUTE", 233>>, <<"CAP_EACUTE", 201>> }

Chars == {Printable[i] : i \in 1..Len(Printable)} \cup {p[1] : p \in NamedChars}

CodeOf ==
  [c \in Chars |->
     IF \E p \in NamedChars : p[1] = c
     THEN (CHOOSE p \in NamedChars : p[1] = c)[2]
     ELSE 31 + (CHOOSE i \in 1..Len(Printable) : Printable[i] = c)]

CharOf(n) == CHOOSE c \in Chars : CodeOf[c] = n

\* /[\u0000-\u001F\u007F-\u009F]/
IsControl(c) == CodeOf[c] \in (0..31) \cup (127..159)

\* \s of a JavaScript regular expression, and what String.prototype.trim removes
IsSpace(c) ==
  CodeOf[c] \in {9, 10, 11, 12, 13, 32, 160, 5760, 8232, 8233, 8239, 8287, 12288, 65279}
                \cup (8192..8202)

\* /[a-z0-9_]/
IsIdChar(c) == CodeOf[c] \in (97..122) \cup (48..57) \cup {95}

\* String.prototype.toLowerCase on one character of Chars
LowerChar(c) ==
  LET n == CodeOf[c] IN
  IF n \in (65..90) \cup (192..214) \cup (216..222) THEN CharOf(n + 32) ELSE c

(***************************************************************************)
(* String primitives                                                       *)
(***************************************************************************)
\* s.indexOf(c): 1-based position of the first c, 0 when there is none (JS: -1)
indexOf(s, c) ==
  IF \E i \in 1..Len(s) : s[i] = c
  THEN CHOOSE i \in 1..Len(s) : s[i] = c /\ \A j \in 1..(i - 1) : s[j] # c
  ELSE 0

\* s.lastIndexOf(c): 1-based position of the last c, 0 when there is none
lastIndexOf(s, c) ==
  IF \E i \in 1..Len(s) : s[i] = c
  THEN CHOOSE i \in 1..Len(s) : s[i] = c /\ \A j \in (i + 1)..Len(s) : s[j] # c
  ELSE 0

\* s.replace(/[\u0000-\u001F\u007F-\u009F]/g, "")
stripControl(s) == SelectSeq(s, LAMBDA c : ~IsControl(c))

\* s.replace(/[^a-z0-9_]/g, "")
stripNonId(s) == SelectSeq(s, LAMBDA c : IsIdChar(c))

\* s.trim()
RECURSIVE trimStart(_)
trimStart(s) ==
  IF s # <<>> /\ IsSpace(Head(s)) THEN trimStart(Tail(s)) ELSE s

RECURSIVE trimEnd(_)
trimEnd(s) ==
  IF s # <<>> /\ IsSpace(s[Len(s)]) THEN trimEnd(SubSeq(s, 1, Len(s) - 1)) ELSE s

trim(s) == trimEnd(trimStart(s))

RECURSIVE toLowerCase(_)
toLowerCase(s) ==
  IF s = <<>> THEN <<>> ELSE <<LowerChar(Head(s))>> \o toLowerCase(Tail(s))

(***************************************************************************)
(* JavaScript values                                                       *)
(***************************************************************************)
Undefined == [t |-> "undefined"]
Null      == [t |-> "null"]
Bool(b)   == [t |-> "boolean", b |-> b]
Num(n)    == [t |-> "number", n |-> n]
Str(s)    == [t |-> "string", s |-> s]
\* An object keeps its own properties in insertion order; an array has its
\* elements and, like any object, may carry further own properties.
Obj(ks, vs) == [t |-> "object", keys |-> ks, vals |-> vs]
ArrP(a, ks, vs) == [t |-> "array", a |-> a, keys |-> ks, vals |-> vs]
Arr(a)    == ArrP(a, <<>>, <<>>)

\* An outcome of a call: a returned value or a thrown error.
Return(v) == [threw |-> FALSE, val |-> v]
Throw(e)  == [threw |-> TRUE, err |-> e]

(***************************************************************************)
(* extractJSONBlock                                                        *)
(***************************************************************************)
\* text.slice(first, last + 1), with 1-based inclusive positions
slice(s, first, last) == SubSeq(s, first, last)

\* Mutant: the block ends at the first "}" instead of the last.
extractJSONBlock_firstClose(text) ==
  IF text.t # "string" THEN Throw("LLM output not string")
  ELSE LET first == indexOf(text.s, "{")
           last  == indexOf(text.s, "}")
       IN IF first = 0 \/ last = 0 \/ last <= first
          THEN Throw("No JSON block found")
          ELSE Return(Str(trim(stripControl(slice(text.s, first, last)))))

extractJSONBlock(text) ==
  IF text.t # "string" THEN Throw("LLM output not string")
  ELSE LET first == indexOf(text.s, "{")
           last  == lastIndexOf(text.s, "}")
       IN IF first = 0 \/ last = 0 \/ last <= first
          THEN Throw("No JSON block found")
          ELSE Return(Str(trim(stripControl(slice(text.s, first, last)))))

(***************************************************************************)
(* preRepairJSON                                                           *)
(*                                                                         *)
(* A pattern is the sequence of the regular expression's tokens: "\\s*"    *)
(* (any run of white space), "[^\"]+" (a captured, non-empty run of        *)
(* characters other than the double quote) or a literal character.  In     *)
(* both patterns every "\\s*" is followed by a literal that is not white   *)
(* space and every "[^\"]+" by a literal double quote, so the longest run  *)
(* is the only one a match can take and the matcher needs no backtracking. *)
(***************************************************************************)
WS  == "\\s*"
CAP == "[^\"]+"

\* /"\s*\{\s*"id"\s*:\s*"([^"]+)"\s*,\s*"label"\s*:\s*"([^"]+)"\s*\}\s*"/g
QuotedObjectPattern ==
  << "\"", WS, "{", WS, "\"", "i", "d", "\"", WS, ":", WS, "\"", CAP, "\"", WS, ",",
     WS, "\"", "l", "a", "b", "e", "l", "\"", WS, ":", WS, "\"", CAP, "\"", WS, "}",
     WS, "\"" >>

\* /\{\s*"([^"]+)"\s*,\s*"label"\s*:\s*"([^"]+)"\s*\}/g
MissingIdKeyPattern ==
  << "{", WS, "\"", CAP, "\"", WS, ",", WS, "\"", "l", "a", "b", "e", "l", "\"", WS,
     ":", WS, "\"", CAP, "\"", WS, "}" >>

\* The end of the longest run of white space, or of characters other than
\* the double quote, from position i: the first position after it.
spaceRunEnd(s, i) ==
  CHOOSE j \in i..(Len(s) + 1) :
    /\ \A k \in i..(j - 1) : IsSpace(s[k])
    /\ j <= Len(s) => ~IsSpace(s[j])

nonQuoteRunEnd(s, i) ==
  CHOOSE j \in i..(Len(s) + 1) :
    /\ \A k \in i..(j - 1) : s[k] # "\""
    /\ j <= Len(s) => s[j] = "\""

\* The match of pat[k..] at position i of s: [ok, end (the position after the
\* match), caps (the captured groups)].
RECURSIVE matchAt(_, _, _, _, _)
matchAt(s, i, pat, k, caps) ==
  IF k > Len(pat) THEN [ok |-> TRUE, end |-> i, caps |-> caps]
  ELSE IF pat[k] = WS THEN matchAt(s, spaceRunEnd(s, i), pat, k + 1, caps)
  ELSE IF pat[k] = CAP
       THEN LET j == nonQuoteRunEnd(s, i)
            IN IF j > i THEN matchAt(s, j, pat, k + 1, Append(caps, SubSeq(s, i, j - 1)))
               ELSE [ok |-> FALSE, end |-> i, caps |-> caps]
  ELSE IF i <= Len(s) /\ s[i] = pat[k] THEN matchAt(s, i + 1, pat, k + 1, caps)
  ELSE [ok |-> FALSE, end |-> i, caps |-> caps]

\* (_, id, label) => `{"id":"${id}","label":"${label}"}`
itemLiteral(id, label) ==
  << "{", "\"", "i", "d", "\"", ":", "\"" >> \o id \o
  << "\"", ",", "\"", "l", "a", "b", "e", "l", "\"", ":", "\"" >> \o label \o
  << "\"", "}" >>

\* fixed.replace(pattern, replacer) with the g flag, from position i on: the
\* leftmost match at or after i is replaced, and the search goes on after it
RECURSIVE replaceFrom(_, _, _)
replaceFrom(s, i, pat) ==
  LET hits == {j \in i..Len(s) : matchAt(s, j, pat, 1, <<>>).ok} IN
  IF hits = {} THEN SubSeq(s, i, Len(s))
  ELSE LET j == CHOOSE h \in hits : \A x \in hits : h <= x
           m == matchAt(s, j, pat, 1, <<>>)
       IN SubSeq(s, i, j - 1) \o itemLiteral(m.caps[1], m.caps[2])
            \o replaceFrom(s, m.end, pat)

\* Mutant: the first pattern without its \s* parts.
unwrapQuotedObjects_noSpace(raw) ==
  replaceFrom(raw, 1, SelectSeq(QuotedObjectPattern, LAMBDA tok : tok # WS))

unwrapQuotedObjects(raw) == replaceFrom(raw, 1, QuotedObjectPattern)

fillMissingIdKeys(raw) == replaceFrom(raw, 1, MissingIdKeyPattern)

preRepairJSON(raw) == fillMissingIdKeys(unwrapQuotedObjects(raw))

(***************************************************************************)
(* Property access on JavaScript values                                    *)
(***************************************************************************)
isObjectLike(v) == v.t \in {"object", "array"}

keyIndex(o, k) == CHOOSE i \in 1..Len(o.keys) : o.keys[i] = k

hasOwn(o, k) == isObjectLike(o) /\ \E i \in 1..Len(o.keys) : o.keys[i] = k

\* o[k] for a key that is no array index: undefined unless an own property
get(o, k) == IF hasOwn(o, k) THEN o.vals[keyIndex(o, k)] ELSE Undefined

\* o[k] = v on an object or array: an existing property keeps its place, a new
\* one is added last
set(o, k, v) ==
  IF hasOwn(o, k)
  THEN [o EXCEPT !.vals = [o.vals EXCEPT ![keyIndex(o, k)] = v]]
  ELSE [o EXCEPT !.keys = Append(o.keys, k), !.vals = Append(o.vals, v)]

ID     == <<"i", "d">>
LABEL  == <<"l", "a", "b", "e", "l">>
ITEMS  == <<"i", "t", "e", "m", "s">>
PHASES == <<"p", "h", "a", "s", "e", "s">>
TITLE  == <<"t", "i", "t", "l", "e">>
EDGES  == <<"e", "d", "g", "e", "s">>

(***************************************************************************)
(* JSON.parse (ECMA-404 grammar).  Number literals are the integers; \u    *)
(* escapes and fraction/exponent parts lie outside the texts considered.   *)
(***************************************************************************)
IsJsonSpace(c) == CodeOf[c] \in {9, 10, 13, 32}

IsDigit(c) == CodeOf[c] \in 48..57

DigitValue(c) == CodeOf[c] - 48

RECURSIVE skipJsonSpace(_, _)
skipJsonSpace(s, i) ==
  IF i <= Len(s) /\ IsJsonSpace(s[i]) THEN skipJsonSpace(s, i + 1) ELSE i

ParseFail(i) == [ok |-> FALSE, v |-> Undefined, i |-> i]
ParseOk(v, i) == [ok |-> TRUE, v |-> v, i |-> i]

\* The character an escape sequence \c stands for; "" when \c is no escape.
Unescape(c) ==
  CASE c = "\"" -> "\""
    [] c = "\\" -> "\\"
    [] c = "/"  -> "/"
    [] c = "b"  -> "BS"
    [] c = "f"  -> "\f"
    [] c = "n"  -> "\n"
    [] c = "r"  -> "\r"
    [] c = "t"  -> "\t"
    [] OTHER    -> ""

\* The characters of a string literal from position i (after the opening
\* quote) to its closing quote; v is the decoded character sequence.
RECURSIVE parseStringBody(_, _, _)
parseStringBody(s, i, acc) ==
  IF i > Len(s) THEN ParseFail(i)
  ELSE IF s[i] = "\"" THEN ParseOk(acc, i + 1)
  ELSE IF s[i] = "\\"
       THEN IF i + 1 <= Len(s) /\ Unescape(s[i + 1]) # ""
            THEN parseStringBody(s, i + 2, Append(acc, Unescape(s[i + 1])))
            ELSE ParseFail(i)
  ELSE IF CodeOf[s[i]] < 32 THEN ParseFail(i)
  ELSE parseStringBody(s, i + 1, Append(acc, s[i]))

RECURSIVE parseDigits(_, _, _)
parseDigits(s, i, n) ==
  IF i <= Len(s) /\ IsDigit(s[i]) THEN parseDigits(s, i + 1, 10 * n + DigitValue(s[i]))
  ELSE ParseOk(n, i)

\* -?(0|[1-9][0-9]*)
parseNumber(s, i) ==
  LET neg == s[i] = "-"
      j   == IF neg THEN i + 1 ELSE i
  IN IF j > Len(s) \/ ~IsDigit(s[j]) THEN ParseFail(j)
     ELSE LET d == IF s[j] = "0" THEN ParseOk(0, j + 1) ELSE parseDigits(s, j, 0)
          IN ParseOk(Num(IF neg THEN 0 - d.v ELSE d.v), d.i)

parseLiteral(s, i, word, v) ==
  IF i + Len(word) - 1 <= Len(s) /\ SubSeq(s, i, i + Len(word) - 1) = word
  THEN ParseOk(v, i + Len(word))
  ELSE ParseFail(i)

RECURSIVE parseValue(_, _)
RECURSIVE parseElements(_, _, _)
RECURSIVE parseMembers(_, _, _)

\* A value at position i, white space before it skipped.
parseValue(s, i0) ==
  LET i == skipJsonSpace(s, i0) IN
  IF i > Len(s) THEN ParseFail(i)
  ELSE CASE s[i] = "{" ->
              LET j == skipJsonSpace(s, i + 1)
              IN IF j <= Len(s) /\ s[j] = "}" THEN ParseOk(Obj(<<>>, <<>>), j + 1)
                 ELSE parseMembers(s, j, Obj(<<>>, <<>>))
         [] s[i] = "[" ->
              LET j == skipJsonSpace(s, i + 1)
              IN IF j <= Len(s) /\ s[j] = "]" THEN ParseOk(Arr(<<>>), j + 1)
                 ELSE parseElements(s, j, <<>>)
         [] s[i] = "\"" ->
              LET r == parseStringBody(s, i + 1, <<>>)
              IN IF r.ok THEN ParseOk(Str(r.v), r.i) ELSE r
         [] s[i] = "-" \/ IsDigit(s[i]) -> parseNumber(s, i)
         [] s[i] = "t" -> parseLiteral(s, i, <<"t", "r", "u", "e">>, Bool(TRUE))
         [] s[i] = "f" -> parseLiteral(s, i, <<"f", "a", "l", "s", "e">>, Bool(FALSE))
         [] s[i] = "n" -> parseLiteral(s, i, <<"n", "u", "l", "l">>, Null)
         [] OTHER -> ParseFail(i)

\* The elements of an array from position i, then "]".
parseElements(s, i, acc) ==
  LET r == parseValue(s, i) IN
  IF ~r.ok THEN r
  ELSE LET j == skipJsonSpace(s, r.i)
       IN IF j > Len(s) THEN ParseFail(j)
          ELSE IF s[j] = "," THEN parseElements(s, j + 1, Append(acc, r.v))
          ELSE IF s[j] = "]" THEN ParseOk(Arr(Append(acc, r.v)), j + 1)
          ELSE ParseFail(j)

\* The members of an object from position i, then "}".  A repeated key keeps
\* its first place and takes the last value.
parseMembers(s, i0, acc) ==
  LET i == skipJsonSpace(s, i0) IN
  IF i > Len(s) \/ s[i] # "\"" THEN ParseFail(i)
  ELSE LET k == parseStringBody(s, i + 1, <<>>) IN
       IF ~k.ok THEN k
       ELSE LET c == skipJsonSpace(s, k.i) IN
            IF c > Len(s) \/ s[c] # ":" THEN ParseFail(c)
            ELSE LET r == parseValue(s, c + 1) IN
                 IF ~r.ok THEN r
                 ELSE LET j == skipJsonSpace(s, r.i)
                          o == set(acc, k.v, r.v)
                      IN IF j > Len(s) THEN ParseFail(j)
                         ELSE IF s[j] = "," THEN parseMembers(s, j + 1, o)
                         ELSE IF s[j] = "}" THEN ParseOk(o, j + 1)
                         ELSE ParseFail(j)

\* JSON.parse(raw): one value, nothing but white space after it
JSONparse(raw) ==
  LET r == parseValue(raw, 1) IN
  IF r.ok /\ skipJsonSpace(raw, r.i) > Len(raw) THEN Return(r.v)
  ELSE Throw("SyntaxError")

(***************************************************************************)
(* parseLLMOutput                                                          *)
(***************************************************************************)
parseLLMOutput(text) ==
  LET raw == extractJSONBlock(text) IN
  IF raw.threw THEN raw
  ELSE JSONparse(preRepairJSON(raw.val.s))

(***************************************************************************)
(* Conversions of the language                                             *)
(***************************************************************************)
\* ToBoolean(v), the test of !v
truthy(v) ==
  CASE v.t = "undefined" -> FALSE
    [] v.t = "null"      -> FALSE
    [] v.t = "boolean"   -> v.b
    [] v.t = "number"    -> v.n # 0
    [] v.t = "string"    -> v.s # <<>>
    [] OTHER             -> TRUE

\* The decimal digits of a natural number
RECURSIVE digits(_)
digits(n) ==
  IF n < 10 THEN <<CharOf(48 + n)>> ELSE digits(n \div 10) \o <<CharOf(48 + (n % 10))>>

decimal(n) == IF n < 0 THEN <<"-">> \o digits(0 - n) ELSE digits(n)

\* ToString(v), as String(v) and a template literal apply it
RECURSIVE toStr(_)
RECURSIVE joinFrom(_, _)
toStr(v) ==
  CASE v.t = "undefined" -> <<"u", "n", "d", "e", "f", "i", "n", "e", "d">>
    [] v.t = "null"      -> <<"n", "u", "l", "l">>
    [] v.t = "boolean"   -> IF v.b THEN <<"t", "r", "u", "e">>
                            ELSE <<"f", "a", "l", "s", "e">>
    [] v.t = "number"    -> decimal(v.n)
    [] v.t = "string"    -> v.s
    [] v.t = "array"     -> joinFrom(v.a, 1)
    [] OTHER             -> << "[", "o", "b", "j", "e", "c", "t", " ",
                               "O", "b", "j", "e", "c", "t", "]" >>

\* Array.prototype.join(","): null and undefined elements give the empty string
joinFrom(a, i) ==
  IF i > Len(a) THEN <<>>
  ELSE (IF a[i].t \in {"undefined", "null"} THEN <<>> ELSE toStr(a[i]))
       \o (IF i < Len(a) THEN <<",">> ELSE <<>>) \o joinFrom(a, i + 1)

\* Whether a property key is an array index (the canonical decimal of a
\* number below 2^32 - 1): such keys are enumerated first, in ascending
\* order.  Keys of up to 9 digits are weighed; longer digit strings exceed the
\* integers of the checker and are not among the keys considered.
isIndexKey(k) ==
  /\ k # <<>>
  /\ Len(k) <= 9
  /\ \A i \in 1..Len(k) : IsDigit(k[i])
  /\ (k[1] = "0" => Len(k) = 1)

indexValue(k) == parseDigits(k, 1, 0).v

\* The positions of o.keys in enumeration order, those in `left` still to place
RECURSIVE indexKeysAscending(_, _)
indexKeysAscending(o, left) ==
  IF left = {} THEN <<>>
  ELSE LET m == CHOOSE i \in left :
                  \A j \in left : indexValue(o.keys[i]) <= indexValue(o.keys[j])
       IN <<m>> \o indexKeysAscending(o, left \ {m})

\* Object.entries(o) of an object or array: <<key, value>> pairs
entries(o) ==
  LET own   == 1..Len(o.keys)
      elems == IF o.t = "array"
               THEN [i \in 1..Len(o.a) |-> <<decimal(i - 1), o.a[i]>>]
               ELSE <<>>
      first == indexKeysAscending(o, {i \in own : isIndexKey(o.keys[i])})
      rest  == SelectSeq([i \in own |-> i], LAMBDA i : ~isIndexKey(o.keys[i]))
      pair(i) == <<o.keys[i], o.vals[i]>>
  IN elems \o [n \in 1..Len(first) |-> pair(first[n])]
           \o [n \in 1..Len(rest) |-> pair(rest[n])]

(***************************************************************************)
(* normalizeId, explodeBrokenItemObject, normalizeRoadmap                  *)
(***************************************************************************)
\* `${phaseId}_${index + 1}`; index is 0-based
fallbackId(phaseId, index) == toStr(phaseId) \o <<"_">> \o decimal(index + 1)

normalizeId(id, phaseId, index) ==
  LET clean == trim(stripNonId(toLowerCase(toStr(id))))
  IN IF clean = <<>> THEN fallbackId(phaseId, index) ELSE clean

\* { id: ..., label: ... }
Item(id, label) == Obj(<<ID, LABEL>>, <<id, label>>)

isStr(v) == v.t = "string"

\* The items the loop over Object.entries(obj) pushes, from entry i on
RECURSIVE explodeEntries(_, _)
explodeEntries(es, i) ==
  IF i > Len(es) THEN <<>>
  ELSE IF es[i][1] = ID \/ es[i][1] = LABEL THEN explodeEntries(es, i + 1)
  ELSE IF isStr(es[i][2])
       THEN <<Item(Str(es[i][1]), es[i][2])>> \o explodeEntries(es, i + 1)
  ELSE explodeEntries(es, i + 1)

explodeBrokenItemObject(obj) ==
  IF ~truthy(obj) \/ ~isObjectLike(obj) THEN <<>>
  ELSE (IF isStr(get(obj, ID)) /\ isStr(get(obj, LABEL))
        THEN <<Item(get(obj, ID), get(obj, LABEL))>>
        ELSE <<>>)
       \o explodeEntries(entries(obj), 1)

\* Mutant: the fallback position is the item's place among the exploded
\* items, not among the items already pushed.
RECURSIVE pushExploded_localIndex(_, _, _, _)
pushExploded_localIndex(exploded, i, phaseId, newItems) ==
  IF i > Len(exploded) THEN newItems
  ELSE pushExploded_localIndex(exploded, i + 1, phaseId,
         Append(newItems,
                Item(Str(normalizeId(get(exploded[i], ID), phaseId, i - 1)),
                     get(exploded[i], LABEL))))

\* exploded.forEach(ex => newItems.push({id: normalizeId(...), label: ex.label}))
RECURSIVE pushExploded(_, _, _, _)
pushExploded(exploded, i, phaseId, newItems) ==
  IF i > Len(exploded) THEN newItems
  ELSE pushExploded(exploded, i + 1, phaseId,
         Append(newItems,
                Item(Str(normalizeId(get(exploded[i], ID), phaseId, Len(newItems))),
                     get(exploded[i], LABEL))))

\* Mutant: the `return` after the direct push is missing, so a well-formed
\* item is pushed and then exploded as well.
normalizeItem_noReturn(item, phaseId, newItems) ==
  IF ~truthy(item) \/ ~isObjectLike(item) THEN newItems
  ELSE pushExploded(explodeBrokenItemObject(item), 1, phaseId,
         IF isStr(get(item, ID)) /\ isStr(get(item, LABEL))
         THEN Append(newItems,
                     Item(Str(normalizeId(get(item, ID), phaseId, Len(newItems))),
                          get(item, LABEL)))
         ELSE newItems)

\* One call of the callback of phase.items.forEach: newItems afterwards
normalizeItem(item, phaseId, newItems) ==
  IF ~truthy(item) \/ ~isObjectLike(item) THEN newItems
  ELSE IF isStr(get(item, ID)) /\ isStr(get(item, LABEL))
       THEN Append(newItems,
                   Item(Str(normalizeId(get(item, ID), phaseId, Len(newItems))),
                        get(item, LABEL)))
  ELSE pushExploded(explodeBrokenItemObject(item), 1, phaseId, newItems)

RECURSIVE normalizeItems(_, _, _, _)
normalizeItems(items, i, phaseId, newItems) ==
  IF i > Len(items) THEN newItems
  ELSE normalizeItems(items, i + 1, phaseId, normalizeItem(items[i], phaseId, newItems))

\* phase.items = newItems, after the loop over what phase.items held
withNewItems(phase) ==
  set(phase, ITEMS,
      Arr(normalizeItems(IF get(phase, ITEMS).t = "array" THEN get(phase, ITEMS).a
                         ELSE <<>>,
                         1, get(phase, ID), <<>>)))

\* Mutant: the synthesized phase id counts from 0.
normalizePhase_zeroBased(phase, pIndex) ==
  withNewItems(IF ~truthy(get(phase, ID))
               THEN set(phase, ID, Str(<<"p">> \o decimal(pIndex)))
               ELSE phase)

\* The callback of json.phases.forEach on an object or array `phase` at 0-based
\* pIndex: the phase as the callback leaves it
normalizePhase(phase, pIndex) ==
  withNewItems(IF ~truthy(get(phase, ID))
               THEN set(phase, ID, Str(<<"p">> \o decimal(pIndex + 1)))
               ELSE phase)

\* json.phases.forEach(...) from 1-based position p on.  Reading phase.id of
\* null or undefined throws; so does assigning phase.id on a primitive, which
\* has no id, in the strict mode of an ES module.  The phases before the one
\* that throws stay as the callback left them.
RECURSIVE normalizePhases(_, _)
normalizePhases(phases, p) ==
  IF p > Len(phases) THEN [threw |-> FALSE, phases |-> phases]
  ELSE IF ~isObjectLike(phases[p]) THEN [threw |-> TRUE, phases |-> phases]
  ELSE normalizePhases([phases EXCEPT ![p] = normalizePhase(phases[p], p - 1)], p + 1)

GeneratedRoadmap ==
  << "G", "e", "n", "e", "r", "a", "t", "e", "d", " ", "R", "o", "a", "d", "m", "a", "p" >>

\* if (!json.title || typeof json.title !== "string") json.title = ...
defaultTitle(json) ==
  IF ~truthy(get(json, TITLE)) \/ ~isStr(get(json, TITLE))
  THEN set(json, TITLE, Str(GeneratedRoadmap))
  ELSE json

\* if (!Array.isArray(json.edges)) json.edges = []
defaultEdges(json) ==
  IF get(json, EDGES).t # "array" THEN set(json, EDGES, Arr(<<>>)) ELSE json

\* The outcome of a call that leaves the object passed as json as `json`:
\* thrown out of the loop over the phases, or returned
Thrown(json, err) == [threw |-> TRUE, err |-> err, after |-> json]
Returns(json) == [threw |-> FALSE, val |-> json, after |-> json]

\* json with the phases as the loop left them (the array is the same object)
withPhases(json, phases) ==
  set(json, PHASES, [get(json, PHASES) EXCEPT !.a = phases])

afterPhases(json, ph) ==
  IF ph.threw THEN Thrown(withPhases(json, ph.phases), "TypeError")
  ELSE Returns(defaultEdges(defaultTitle(withPhases(json, ph.phases))))

\* normalizeRoadmap(json): the outcome, and `after`, the state the call leaves
\* the object passed as json in (the function works on json itself and
\* returns it).
normalizeRoadmap(json) ==
  IF ~truthy(json) \/ ~isObjectLike(json) THEN Thrown(json, "Not object")
  ELSE IF get(json, PHASES).t # "array" THEN Thrown(json, "No phases array")
  ELSE afterPhases(json, normalizePhases(get(json, PHASES).a, 1))

(***************************************************************************)
(* Pipeline runs on their own: one stage applied to each input of a        *)
(* bounded set.  The handler's variables stay as constructed.              *)
(***************************************************************************)
NoRequests == <<>>
NoCache == <<>>
HandlerIdle == cache = NoCache /\ req = NoRequests /\ made = {}
HandlerUnchanged == UNCHANGED <<cache, req, made>>

MaxTextLen == 4

\* The characters the extractor tells apart: the two braces, a letter, white
\* space, a C0 control that is white space too, a C0 and a C1 control that
\* are not.
ExtractAlphabet == {"{", "}", "a", " ", "\n", "ESC", "DEL"}

RECURSIVE TextsOfLen(_, _)
TextsOfLen(alphabet, n) ==
  IF n = 0 THEN {<<>>}
  ELSE {Append(s, c) : s \in TextsOfLen(alphabet, n - 1), c \in alphabet}

ExtractInputs ==
  {Null} \cup {Str(s) : s \in UNION {TextsOfLen(ExtractAlphabet, n) : n \in 0..MaxTextLen}}

InitExtract ==
  /\ input \in ExtractInputs
  /\ arg = input
  /\ stage = "extract"
  /\ ret = Undefined
  /\ HandlerIdle

Extract ==
  /\ stage = "extract"
  /\ ret' = extractJSONBlock(arg)
  /\ stage' = "done"
  /\ UNCHANGED <<input, arg>>
  /\ HandlerUnchanged

NextExtract == Extract

SpecExtract == InitExtract /\ [][NextExtract]_vars

\* C5: for every input string, extractJSONBlock throws "No JSON block found"
\* exactly when the text has no "{", no "}", or its last "}" is not after
\* its first "{"; otherwise it returns the text from the first "{" to the
\* last "}" without its control characters, which starts with "{", ends
\* with "}" and has no white space around it.
C5_ExtractContract ==
  (stage = "done" /\ input.t = "string") =>
    LET s      == input.s
        opens  == {i \in 1..Len(s) : s[i] = "{"}
        closes == {i \in 1..Len(s) : s[i] = "}"}
        none   == \/ opens = {}
                  \/ closes = {}
                  \/ \A c \in closes : \A o \in opens : c <= o
    IN /\ ret.threw <=> none
       /\ ret.threw => ret.err = "No JSON block found"
       /\ ~none =>
            LET first == CHOOSE o \in opens : \A x \in opens : o <= x
                last  == CHOOSE c \in closes : \A x \in closes : x <= c
                r     == ret.val.s
            IN /\ ret.val.t = "string"
               /\ r = SelectSeq(SubSeq(s, first, last), LAMBDA c : ~IsControl(c))
               /\ r[1] = "{" /\ r[Len(r)] = "}"

\* A block found after leading noise, with a control character removed from
\* inside it.
C5_Witness ==
  /\ stage = "done" /\ input.t = "string" /\ ~ret.threw
  /\ input.s[1] = "a"
  /\ \E i \in 1..Len(input.s) : input.s[i] = "ESC"
  /\ ret.val.s = <<"{", "}">>

(***************************************************************************)
(* Repair runs: candidate texts of a roadmap whose items array holds item  *)
(* objects, some of them wrapped in an extra pair of double quotes.        *)
(***************************************************************************)
MaxRepairItems == 2

RepairIds == { <<"x", "1">>, <<"A", " ", "b">> }
RepairLabels == { <<"D", "o", "c", "k", "e", "r">>, <<"C", "I", "/", "C", "D">> }

Quoted(w) == <<"\"">> \o w \o <<"\"">>

\* {"id":"<id>","label":"<label>"}, written out
BareItem(id, label) ==
  <<"{">> \o Quoted(ID) \o <<":">> \o Quoted(id) \o <<",">> \o Quoted(LABEL)
          \o <<":">> \o Quoted(label) \o <<"}">>

\* The same object inside an extra pair of quotes, in three layouts:
\* "{ "id": "x1", "label": "Docker" }", the compact one, and one with white
\* space (a line break and a no-break space among it) wherever \s* allows it.
QuotedItem(layout, id, label) ==
  CASE layout = "spaced" ->
         <<"\"", "{", " ">> \o Quoted(ID) \o <<":", " ">> \o Quoted(id) \o <<",", " ">>
           \o Quoted(LABEL) \o <<":", " ">> \o Quoted(label) \o <<" ", "}", "\"">>
    [] layout = "compact" -> <<"\"">> \o BareItem(id, label) \o <<"\"">>
    [] OTHER ->
         <<"\"", " ", "{", "\n">> \o Quoted(ID) \o <<" ", ":", "NBSP">> \o Quoted(id)
           \o <<" ", ",", " ", " ">> \o Quoted(LABEL) \o <<"\n", ":">> \o Quoted(label)
           \o <<"}", " ", "\"">>

RepairItemChoices ==
  {[quoted |-> TRUE, layout |-> l, id |-> i, label |-> b] :
     l \in {"spaced", "compact", "loose"}, i \in RepairIds, b \in RepairLabels}
  \cup {[quoted |-> FALSE, layout |-> "compact", id |-> <<"k">>, label |-> <<"K">>]}

RECURSIVE RecipesOfLen(_)
RecipesOfLen(n) ==
  IF n = 0 THEN {<<>>}
  ELSE {Append(r, c) : r \in RecipesOfLen(n - 1), c \in RepairItemChoices}

RepairRecipes == UNION {RecipesOfLen(n) : n \in 1..MaxRepairItems}

RECURSIVE JoinItems(_, _, _)
JoinItems(recipe, i, repaired) ==
  IF i > Len(recipe) THEN <<>>
  ELSE (IF recipe[i].quoted /\ ~repaired
        THEN QuotedItem(recipe[i].layout, recipe[i].id, recipe[i].label)
        ELSE BareItem(recipe[i].id, recipe[i].label))
       \o (IF i < Len(recipe) THEN <<",">> ELSE <<>>)
       \o JoinItems(recipe, i + 1, repaired)

\* {"phases":[{"id":"p1","items":[ ... ]}]}
RoadmapText(recipe, repaired) ==
  <<"{">> \o Quoted(PHASES) \o <<":", "[", "{">> \o Quoted(ID) \o <<":">>
    \o Quoted(<<"p", "1">>) \o <<",">> \o Quoted(ITEMS) \o <<":", "[">>
    \o JoinItems(recipe, 1, repaired) \o <<"]", "}", "]", "}">>

InitRepair ==
  /\ \E recipe \in RepairRecipes :
       input = [items |-> recipe, text |-> Str(RoadmapText(recipe, FALSE))]
  /\ arg = input.text
  /\ stage = "repair"
  /\ ret = Undefined
  /\ HandlerIdle

\* raw = preRepairJSON(raw)
Repair ==
  /\ stage = "repair"
  /\ arg' = Str(preRepairJSON(arg.s))
  /\ ret' = Return(arg')
  /\ stage' = "parse"
  /\ UNCHANGED input
  /\ HandlerUnchanged

\* return JSON.parse(raw)
Parse ==
  /\ stage = "parse"
  /\ ret' = JSONparse(arg.s)
  /\ stage' = "done"
  /\ UNCHANGED <<input, arg>>
  /\ HandlerUnchanged

NextRepair == Repair \/ Parse

SpecRepair == InitRepair /\ [][NextRepair]_vars

MaxItems == 2
MaxPhases == 2

ItemValid1   == Item(Str(<<"i", "1">>), Str(<<"C", "I", "/", "C", "D">>))
ItemValid2   == Item(Str(<<"b", "_", "2">>), Str(<<"B">>))
ItemUpper    == Item(Str(<<"A", "!">>), Str(<<"x">>))
ItemNoId     == Item(Str(<<"!", "!">>), Str(<<"L">>))
\* {"id":"i1","label":"CI/CD","extra_topic":"Kubernetes Basics"}
ItemExtraKey ==
  Obj(<<ID, LABEL, <<"e", "x", "t", "r", "a", "_", "t", "o", "p", "i", "c">>>>,
      <<Str(<<"i", "1">>), Str(<<"C", "I", "/", "C", "D">>),
        Str(<<"K", "u", "b", "e", "r", "n", "e", "t", "e", "s", " ",
              "B", "a", "s", "i", "c", "s">>)>>)
\* {"b":"B","2":"two"}
ItemCollapsed == Obj(<<<<"b">>, <<"2">>>>, <<Str(<<"B">>), Str(<<"t", "w", "o">>)>>)
\* {"id":5,"label":"x","!":"bang"}
ItemNumericId ==
  Obj(<<ID, LABEL, <<"!">>>>, <<Num(5), Str(<<"x">>), Str(<<"b", "a", "n", "g">>)>>)
\* ["e"]
ItemArray == Arr(<<Str(<<"e">>)>>)

ItemVals ==
  { ItemValid1, ItemValid2, ItemUpper, ItemNoId, ItemExtraKey, ItemCollapsed,
    ItemNumericId, ItemArray, Null }

RECURSIVE ItemListsOfLen(_)
ItemListsOfLen(n) ==
  IF n = 0 THEN {<<>>}
  ELSE {Append(l, v) : l \in ItemListsOfLen(n - 1), v \in ItemVals}

\* What a phase may hold as items: no such key (Undefined), a value that is no
\* array, or an array of up to MaxItems items.
ItemsChoices ==
  {Undefined, Str(<<"n", "o", "n", "e">>)}
  \cup {Arr(l) : l \in UNION {ItemListsOfLen(n) : n \in 0..MaxItems}}

\* What a phase may hold as id: no such key (Undefined) or a value.
PhaseIdChoices ==
  {Undefined, Str(<<"p", "1">>), Str(<<"P", "h", "a", "s", "e", " ", "1">>), Str(<<>>),
   Num(0), Num(7)}

\* An object of the given keys, the absent (Undefined) ones left out.
RECURSIVE ObjectOf(_, _, _)
ObjectOf(ks, vs, i) ==
  IF i > Len(ks) THEN Obj(<<>>, <<>>)
  ELSE LET rest == ObjectOf(ks, vs, i + 1)
       IN IF vs[i] = Undefined THEN rest
          ELSE Obj(<<ks[i]>> \o rest.keys, <<vs[i]>> \o rest.vals)

PhaseOf(id, items) == ObjectOf(<<ID, ITEMS>>, <<id, items>>, 1)

PhaseVals ==
  {Null, Num(7)} \cup {PhaseOf(id, items) : id \in PhaseIdChoices, items \in ItemsChoices}

\* The phases of the documents of several phases.
SmallPhases ==
  { PhaseOf(Str(<<"p", "1">>), Arr(<<ItemValid1>>)),
    PhaseOf(Str(<<"p", "1">>), Arr(<<ItemValid1, ItemValid2>>)),
    PhaseOf(Undefined, Arr(<<ItemNumericId, ItemNoId>>)),
    PhaseOf(Str(<<"P", "h", "a", "s", "e", " ", "1">>), Arr(<<Null, ItemNoId>>)),
    Null,
    Num(7) }

RECURSIVE PhaseListsOfLen(_)
PhaseListsOfLen(n) ==
  IF n = 0 THEN {<<>>}
  ELSE {Append(l, v) : l \in PhaseListsOfLen(n - 1), v \in SmallPhases}

PhasesChoices ==
  {Arr(<<>>)} \cup {Arr(<<ph>>) : ph \in PhaseVals}
  \cup {Arr(l) : l \in UNION {PhaseListsOfLen(n) : n \in 2..MaxPhases}}

AnEdge == Obj(<<<<"f", "r", "o", "m">>, <<"t", "o">>>>, <<Str(<<"i", "1">>), Str(<<"b", "_", "2">>)>>)

\* Title and edges of a document: absent (Undefined), well-formed, or of
\* another type.
TitleEdgesChoices ==
  { <<Undefined, Undefined>>,
    <<Str(<<"T">>), Arr(<<>>)>>,
    <<Str(<<"T">>), Arr(<<AnEdge>>)>>,
    <<Str(<<>>), Arr(<<AnEdge>>)>>,
    <<Num(5), Str(<<"x">>)>> }

DocOf(te, phases) == ObjectOf(<<TITLE, PHASES, EDGES>>, <<te[1], phases, te[2]>>, 1)

NormalizeInputs ==
  {DocOf(te, phases) : te \in TitleEdgesChoices, phases \in PhasesChoices}
  \cup { Null, Str(<<"x">>), Arr(<<>>), Obj(<<TITLE>>, <<Str(<<"T">>)>>),
         Obj(<<PHASES>>, <<Obj(<<>>, <<>>)>>) }

InitNormalize ==
  /\ input \in NormalizeInputs
  /\ arg = input
  /\ stage = "normalize"
  /\ ret = Undefined
  /\ HandlerIdle

Outcome(o) == IF o.threw THEN Throw(o.err) ELSE Return(o.val)

\* The call ends with outcome o: ret is what it returned or threw, and arg,
\* the object it was given, is as the call left it.
Called(o) == ret' = Outcome(o) /\ arg' = o.after

\* json = normalizeRoadmap(json)
Normalize ==
  /\ stage = "normalize"
  /\ Called(normalizeRoadmap(arg))
  /\ stage' = "done"
  /\ UNCHANGED input
  /\ HandlerUnchanged

\* normalizeRoadmap on the document a first call returned
Renormalize ==
  /\ stage = "done"
  /\ ~ret.threw
  /\ Called(normalizeRoadmap(ret.val))
  /\ stage' = "again"
  /\ UNCHANGED input
  /\ HandlerUnchanged

NextNormalize == Normalize \/ Renormalize

SpecNormalize == InitNormalize /\ [][NextNormalize]_vars

\* /^[a-z0-9_]+$/ on a value
IsConformingId(v) ==
  v.t = "string" /\ v.s # <<>> /\ \A i \in 1..Len(v.s) : IsIdChar(v.s[i])

PhasesOf(doc) == get(doc, PHASES).a
ItemsOf(phase) == IF get(phase, ITEMS).t = "array" THEN get(phase, ITEMS).a ELSE <<>>
Returned == stage = "done" /\ ~ret.threw

\* C1: in every document normalizeRoadmap returns, every phase id and every
\* item id is a non-empty string of lowercase letters, digits and underscore.
C1_IdConformance ==
  Returned =>
    \A p \in 1..Len(PhasesOf(ret.val)) :
      LET phase == PhasesOf(ret.val)[p] IN
      /\ IsConformingId(get(phase, ID))
      /\ \A i \in 1..Len(ItemsOf(phase)) : IsConformingId(get(ItemsOf(phase)[i], ID))

\* The items the claim expects of a raw item: the normalized forms of `raws`,
\* pushed when k items were there already.
ExpectedItems(raws, phaseId, k) ==
  [n \in 1..Len(raws) |->
     Item(Str(normalizeId(get(raws[n], ID), phaseId, k + n - 1)), get(raws[n], LABEL))]

HasExtraStringKey(item) ==
  \E i \in 1..Len(item.keys) :
    item.keys[i] \notin {ID, LABEL} /\ isStr(item.vals[i])

\* C2: a raw item with a string id, a string label and at least one further
\* string-valued key normalizes to several items: the one of id and label,
\* then one per further string-valued key, in that order.
C2_ExplosionRecovery ==
  Returned =>
    \A p \in 1..Len(PhasesOf(input)) :
      \A i \in 1..Len(ItemsOf(PhasesOf(input)[p])) :
        LET item == ItemsOf(PhasesOf(input)[p])[i]
            out  == ItemsOf(PhasesOf(ret.val)[p])
            pid  == get(PhasesOf(ret.val)[p], ID)
            raws == <<Item(get(item, ID), get(item, LABEL))>>
                      \o explodeEntries(entries(item), 1)
        IN (/\ item.t = "object" /\ isStr(get(item, ID)) /\ isStr(get(item, LABEL))
            /\ HasExtraStringKey(item))
           => \E k \in 0..Len(out) :
                /\ k + Len(raws) <= Len(out)
                /\ \A n \in 1..Len(raws) : out[k + n] = ExpectedItems(raws, pid, k)[n]

\* C8: normalizeRoadmap leaves the parsed value it receives unchanged.
C8_InputUnchanged == stage = "done" => arg = input

\* The id a returned phase must have, given the id the input phase had, when
\* an id is kept under `Kept` and synthesized otherwise; p is 1-based.
PhaseIdRule(inId, p, kept) == IF kept THEN inId ELSE Str(<<"p">> \o decimal(p))

IsItem(v) ==
  v.t = "object" /\ v.keys = <<ID, LABEL>> /\ isStr(v.vals[1]) /\ isStr(v.vals[2])

\* What C6 states apart from where title and phase ids come from: the shape.
SchemaShape(doc) ==
  /\ isStr(get(doc, TITLE)) /\ get(doc, TITLE).s # <<>>
  /\ get(doc, EDGES).t = "array"
  /\ get(doc, EDGES) = (IF get(input, EDGES).t = "array" THEN get(input, EDGES)
                        ELSE Arr(<<>>))
  /\ Len(PhasesOf(doc)) = Len(PhasesOf(input))
  /\ \A p \in 1..Len(PhasesOf(doc)) :
       /\ hasOwn(PhasesOf(doc)[p], ID)
       /\ get(PhasesOf(doc)[p], ITEMS).t = "array"
       /\ \A i \in 1..Len(ItemsOf(PhasesOf(doc)[p])) : IsItem(ItemsOf(PhasesOf(doc)[p])[i])

\* C6 (as stated): every returned document has a non-empty string title (the
\* literal "Generated Roadmap" when the input title was absent or not a
\* string, the input title otherwise), an edges sequence (empty when the
\* input's was absent or no sequence), and phases that each have an id (the
\* input id when it was a non-empty value, otherwise "p" and the 1-based
\* index) and a sequence of {id: string, label: string} items.
C6_SchemaAsStated ==
  Returned =>
    /\ SchemaShape(ret.val)
    /\ get(ret.val, TITLE) = (IF isStr(get(input, TITLE)) THEN get(input, TITLE)
                              ELSE Str(GeneratedRoadmap))
    /\ \A p \in 1..Len(PhasesOf(ret.val)) :
         get(PhasesOf(ret.val)[p], ID) =
           PhaseIdRule(get(PhasesOf(input)[p], ID), p,
                       get(PhasesOf(input)[p], ID) \notin {Undefined, Null, Str(<<>>)})

\* C6 (amended): as stated, but the title is also the literal when the input
\* title was the empty string, and a phase keeps its input id exactly when
\* that id is truthy (not undefined, null, false, 0 or "").
C6_Schema ==
  Returned =>
    /\ SchemaShape(ret.val)
    /\ get(ret.val, TITLE) =
         (IF isStr(get(input, TITLE)) /\ get(input, TITLE).s # <<>>
          THEN get(input, TITLE) ELSE Str(GeneratedRoadmap))
    /\ \A p \in 1..Len(PhasesOf(ret.val)) :
         get(PhasesOf(ret.val)[p], ID) =
           PhaseIdRule(get(PhasesOf(input)[p], ID), p,
                       truthy(get(PhasesOf(input)[p], ID)))

\* A document returned for an input with an empty title, no edges and a
\* phase whose id 0 was replaced.
C6_Witness ==
  /\ Returned
  /\ get(input, TITLE) = Str(<<>>)
  /\ get(ret.val, TITLE) = Str(GeneratedRoadmap)
  /\ Len(PhasesOf(input)) = 1
  /\ get(PhasesOf(input)[1], ID) = Num(0)
  /\ get(PhasesOf(ret.val)[1], ID) = Str(<<"p", "1">>)
  /\ Len(ItemsOf(PhasesOf(ret.val)[1])) = 2

\* The raw ids of the items one raw item gives rise to, in order.
RawIdsOfItem(item) ==
  IF ~truthy(item) \/ ~isObjectLike(item) THEN <<>>
  ELSE IF isStr(get(item, ID)) /\ isStr(get(item, LABEL)) THEN <<get(item, ID)>>
  ELSE [n \in 1..Len(explodeBrokenItemObject(item)) |->
          get(explodeBrokenItemObject(item)[n], ID)]

RECURSIVE RawIds(_, _)
RawIds(items, i) ==
  IF i > Len(items) THEN <<>> ELSE RawIdsOfItem(items[i]) \o RawIds(items, i + 1)

\* No character of the raw id is, once lowercased, in [a-z0-9_].
CleansToEmpty(raw) == \A i \in 1..Len(raw.s) : ~IsIdChar(LowerChar(raw.s[i]))

\* The k-th item pushed for a phase (k counts from 1) fell back to the
\* positional id.
FellBack(raws, k) == CleansToEmpty(raws[k])

\* C9: an emitted item whose raw id cleans to the empty string gets the id
\* "<phaseId>_<k+1>", k being the number of items already emitted for the
\* phase, and two such ids within one phase are never equal.
C9_FallbackByEmittedPosition ==
  Returned =>
    \A p \in 1..Len(PhasesOf(ret.val)) :
      LET raws == RawIds(ItemsOf(PhasesOf(input)[p]), 1)
          out  == ItemsOf(PhasesOf(ret.val)[p])
          pid  == get(PhasesOf(ret.val)[p], ID)
      IN /\ Len(out) = Len(raws)
         /\ \A k \in 1..Len(raws) :
              FellBack(raws, k) =>
                get(out[k], ID) = Str(toStr(pid) \o <<"_">> \o decimal((k - 1) + 1))
         /\ \A k1, k2 \in 1..Len(raws) :
              (k1 # k2 /\ FellBack(raws, k1) /\ FellBack(raws, k2))
                => get(out[k1], ID) # get(out[k2], ID)

\* A phase whose second raw item is the first one emitted and falls back to
\* "<phaseId>_1", and a phase with two fallback ids.
C9_Witness ==
  /\ Returned
  /\ Len(PhasesOf(input)) = 2
  /\ ItemsOf(PhasesOf(input)[1]) = <<Null, ItemNoId>>
  /\ get(ItemsOf(PhasesOf(ret.val)[1])[1], ID)
       = Str(<<"P", "h", "a", "s", "e", " ", "1", "_", "1">>)
  /\ ItemsOf(PhasesOf(input)[2]) = <<ItemNumericId, ItemNoId>>
  /\ get(ItemsOf(PhasesOf(ret.val)[2])[1], ID) = Str(<<"p", "2", "_", "1">>)
  /\ get(ItemsOf(PhasesOf(ret.val)[2])[2], ID) = Str(<<"p", "2", "_", "2">>)

\* A valid RoadmapDocument: a non-empty string title, an edges sequence, and
\* phases that are objects with a non-empty string id and an items sequence
\* of objects with a conforming string id and a string label.
IsRoadmapDocument(x) ==
  /\ x.t = "object"
  /\ isStr(get(x, TITLE)) /\ get(x, TITLE).s # <<>>
  /\ get(x, EDGES).t = "array"
  /\ get(x, PHASES).t = "array"
  /\ \A p \in 1..Len(PhasesOf(x)) :
       /\ PhasesOf(x)[p].t = "object"
       /\ isStr(get(PhasesOf(x)[p], ID)) /\ get(PhasesOf(x)[p], ID).s # <<>>
       /\ get(PhasesOf(x)[p], ITEMS).t = "array"
       /\ \A i \in 1..Len(ItemsOf(PhasesOf(x)[p])) :
            /\ ItemsOf(PhasesOf(x)[p])[i].t = "object"
            /\ IsConformingId(get(ItemsOf(PhasesOf(x)[p])[i], ID))
            /\ isStr(get(ItemsOf(PhasesOf(x)[p])[i], LABEL))

\* C4: for an input that is a valid RoadmapDocument, normalizing the
\* document normalizeRoadmap returned returns that same document.
C4_Idempotent ==
  [][(stage = "done" /\ stage' = "again" /\ IsRoadmapDocument(input))
       => (~ret'.threw /\ ret'.val = ret.val)]_vars

\* A valid document of one phase with two items, normalized twice.
C4_Witness ==
  /\ stage = "again"
  /\ IsRoadmapDocument(input)
  /\ Len(PhasesOf(input)) = 1
  /\ ItemsOf(PhasesOf(input)[1]) = <<ItemValid2, ItemExtraKey>>
  /\ ~ret.threw

(***************************************************************************)
(* The request handlers of POST /api/roadmap and DELETE /api/roadmap/:id.  *)
(* A handler runs from one await to the next in one step; the Firestore    *)
(* call or the model call it awaits takes effect in the step that resumes  *)
(* it.  createdAt, which no handler here reads, is left out of the stored  *)
(* record.                                                                 *)
(***************************************************************************)
NumReq == 2

Requests == 1..NumReq

\* req.body.goal: absent, a string, or a value of another type
Goals == {Undefined, Str(<<"G", "o">>), Str(<<"G", "O">>), Str(<<"R", "&", "D">>), Num(5)}

\* /[^a-z0-9]/
IsKeyChar(c) == CodeOf[c] \in (97..122) \cup (48..57)

\* s.replace(/[^a-z0-9]+/g, "-") from position i on; inRun tells that the
\* character before i was replaced already
RECURSIVE dashRuns(_, _, _)
dashRuns(s, i, inRun) ==
  IF i > Len(s) THEN <<>>
  ELSE IF IsKeyChar(s[i]) THEN <<s[i]>> \o dashRuns(s, i + 1, FALSE)
  ELSE (IF inRun THEN <<>> ELSE <<"-">>) \o dashRuns(s, i + 1, TRUE)

\* goal.toLowerCase().replace(/[^a-z0-9]+/g, "-")
goalKey(goal) == dashRuns(toLowerCase(goal), 1, FALSE)

\* The document ids DELETE is called with
DeleteIds == {<<"g", "o">>, <<"x">>}

Keys == {goalKey(g.s) : g \in {h \in Goals : h.t = "string"}} \cup DeleteIds

Absent == [exists |-> FALSE]
Stored(goal, data) == [exists |-> TRUE, goal |-> goal, data |-> data]

\* Sure:\n{"phases":[{"items":[{"id":"A","label":"Vars"}]}]}
CompletionPlain ==
  Str(
  << "S", "u", "r", "e", ":", "\n", "{", "\"", "p", "h", "a", "s", "e", "s",
     "\"", ":", "[", "{", "\"", "i", "t", "e", "m", "s", "\"", ":", "[", "{",
     "\"", "i", "d", "\"", ":", "\"", "A", "\"", ",", "\"", "l", "a", "b",
     "e", "l", "\"", ":", "\"", "V", "a", "r", "s", "\"", "}", "]", "}", "]",
     "}" >>)

\* {"title":"Go","phases":[{"id":"p1","items":["{ "id": "x1", "label": "Docker" }"]}]} ok
CompletionQuoted ==
  Str(
  << "{", "\"", "t", "i", "t", "l", "e", "\"", ":", "\"", "G", "o", "\"",
     ",", "\"", "p", "h", "a", "s", "e", "s", "\"", ":", "[", "{", "\"", "i",
     "d", "\"", ":", "\"", "p", "1", "\"", ",", "\"", "i", "t", "e", "m",
     "s", "\"", ":", "[", "\"", "{", " ", "\"", "i", "d", "\"", ":", " ",
     "\"", "x", "1", "\"", ",", " ", "\"", "l", "a", "b", "e", "l", "\"",
     ":", " ", "\"", "D", "o", "c", "k", "e", "r", "\"", " ", "}", "\"", "]",
     "}", "]", "}", " ", "o", "k" >>)

\* no braces here
CompletionNoBraces ==
  Str(
  << "n", "o", " ", "b", "r", "a", "c", "e", "s", " ", "h", "e", "r", "e" >>)

\* {"phases":[}
CompletionBadJson ==
  Str(
  << "{", "\"", "p", "h", "a", "s", "e", "s", "\"", ":", "[", "}" >>)

\* {"title":"T"}
CompletionNoPhases ==
  Str(
  << "{", "\"", "t", "i", "t", "l", "e", "\"", ":", "\"", "T", "\"", "}" >>)

\* {"phases":[{"items":[]},null]}
CompletionNullPhase ==
  Str(
  << "{", "\"", "p", "h", "a", "s", "e", "s", "\"", ":", "[", "{", "\"", "i",
     "t", "e", "m", "s", "\"", ":", "[", "]", "}", ",", "n", "u", "l", "l",
     "]", "}" >>)

\* What groq.chat.completions.create resolves to: the contents of its choices
Completions ==
  { [choices |-> <<c>>] :
      c \in { CompletionPlain, CompletionQuoted, CompletionNoBraces, CompletionBadJson,
              CompletionNoPhases, CompletionNullPhase, Null } }
  \cup { [choices |-> <<>>] }

\* What it rejects with: err.status and err.error.error.code
LlmErrors ==
  { [status |-> 429, code |-> "rate_limit_exceeded"], [status |-> 400, code |-> "rate_limit_exceeded"],
    [status |-> 503, code |-> "unavailable"] }

ErrorBody(code) == [error |-> code]

NewRequest ==
  [pc |-> "idle", goal |-> Undefined, key |-> <<>>, hit |-> FALSE, called |-> FALSE,
   text |-> Undefined, outcome |-> "none", json |-> Undefined, wrote |-> FALSE,
   status |-> 0, body |-> Undefined]

\* return res.status(status).json(body)
Respond(q, status, body) == [q EXCEPT !.pc = "done", !.status = status, !.body = body]

\* The outer catch: RATE_LIMIT for a rate-limit error, INTERNAL_ERROR otherwise
Caught(q, err) ==
  IF err.status = 429 \/ err.code = "rate_limit_exceeded"
  THEN Respond(q, 429, ErrorBody("RATE_LIMIT"))
  ELSE Respond(q, 500, ErrorBody("INTERNAL_ERROR"))

\* An error that is no rate-limit error: a TypeError, a Firestore failure
OtherError == [status |-> 0, code |-> ""]

PipelineIdle ==
  stage = "handler" /\ input = Undefined /\ arg = Undefined /\ ret = Undefined
PipelineUnchanged == UNCHANGED <<stage, input, arg, ret>>

Init ==
  /\ cache = [k \in Keys |-> Absent]
  /\ req = [r \in Requests |-> NewRequest]
  /\ made = {}
  /\ PipelineIdle

\* The handler up to `await docRef.get()`
Receive(r, goal) ==
  /\ req[r].pc = "idle"
  /\ req' = [req EXCEPT ![r] =
       IF ~truthy(goal) THEN Respond([@ EXCEPT !.goal = goal], 400, ErrorBody("Goal is required"))
       ELSE IF goal.t # "string" THEN Caught([@ EXCEPT !.goal = goal], OtherError)
       ELSE [@ EXCEPT !.pc = "get", !.goal = goal, !.key = goalKey(goal.s)]]
  /\ UNCHANGED <<cache, made>>
  /\ PipelineUnchanged

\* Mutant: the cached document is sent, but the handler does not return.
CacheGet_noReturn(r) ==
  /\ req[r].pc = "get"
  /\ req' = [req EXCEPT ![r] =
       IF cache[req[r].key].exists
       THEN [@ EXCEPT !.hit = TRUE, !.status = 200, !.body = cache[req[r].key].data,
                      !.pc = "llm", !.called = TRUE]
       ELSE [@ EXCEPT !.pc = "llm", !.called = TRUE]]
  /\ UNCHANGED <<cache, made>>
  /\ PipelineUnchanged

\* docRef.get() resolves: the cached document is sent, or the model is called
CacheGet(r) ==
  /\ req[r].pc = "get"
  /\ req' = [req EXCEPT ![r] =
       IF cache[req[r].key].exists
       THEN Respond([@ EXCEPT !.hit = TRUE], 200, cache[req[r].key].data)
       ELSE [@ EXCEPT !.pc = "llm", !.called = TRUE]]
  /\ UNCHANGED <<cache, made>>
  /\ PipelineUnchanged

\* docRef.get() rejects
CacheGetFails(r) ==
  /\ req[r].pc = "get"
  /\ req' = [req EXCEPT ![r] = Caught(@, OtherError)]
  /\ UNCHANGED <<cache, made>>
  /\ PipelineUnchanged

\* json = normalizeRoadmap(json), when parseLLMOutput returned
normalizeParsed(parsed) ==
  IF parsed.threw THEN parsed ELSE Outcome(normalizeRoadmap(parsed.val))

\* Mutant: the parsed value is used as it is, without normalizeRoadmap.
pipeline_noNormalize(text) == parseLLMOutput(text)

\* The body of the inner try: parseLLMOutput, then normalizeRoadmap
pipeline(text) == normalizeParsed(parseLLMOutput(text))

\* The inner try/catch with outcome o for the completion text, and what
\* follows up to `await docRef.set(...)`
Piped(r, text, o) ==
  /\ req' = [req EXCEPT ![r] =
       IF o.threw
       THEN Respond([@ EXCEPT !.text = text, !.outcome = "threw"], 500,
                    ErrorBody("BAD_LLM_JSON"))
       ELSE [@ EXCEPT !.text = text, !.outcome = "ok", !.json = o.val, !.pc = "set"]]
  /\ made' = IF o.threw THEN made ELSE made \cup {<<req[r].key, o.val>>}

\* groq.chat.completions.create resolves
Completion(r, completion) ==
  /\ req[r].pc = "llm"
  /\ IF completion.choices = <<>>
     THEN req' = [req EXCEPT ![r] = Caught(@, OtherError)] /\ UNCHANGED made
     ELSE Piped(r, completion.choices[1], pipeline(completion.choices[1]))
  /\ UNCHANGED cache
  /\ PipelineUnchanged

\* groq.chat.completions.create rejects
CompletionFails(r, err) ==
  /\ req[r].pc = "llm"
  /\ req' = [req EXCEPT ![r] = Caught(@, err)]
  /\ UNCHANGED <<cache, made>>
  /\ PipelineUnchanged

\* docRef.set(...) resolves: the document is stored and sent
CacheSet(r) ==
  /\ req[r].pc = "set"
  /\ cache' = [cache EXCEPT ![req[r].key] = Stored(req[r].goal, req[r].json)]
  /\ req' = [req EXCEPT ![r] = Respond([@ EXCEPT !.wrote = TRUE], 200, req[r].json)]
  /\ UNCHANGED made
  /\ PipelineUnchanged

\* docRef.set(...) rejects
CacheSetFails(r) ==
  /\ req[r].pc = "set"
  /\ req' = [req EXCEPT ![r] = Caught(@, OtherError)]
  /\ UNCHANGED <<cache, made>>
  /\ PipelineUnchanged

\* DELETE /api/roadmap/:id: the document is deleted
Delete(id) ==
  /\ cache' = [cache EXCEPT ![id] = Absent]
  /\ UNCHANGED <<req, made>>
  /\ PipelineUnchanged

Next ==
  \/ \E r \in Requests, goal \in Goals : Receive(r, goal)
  \/ \E r \in Requests : CacheGet(r)
  \/ \E r \in Requests : CacheGetFails(r)
  \/ \E r \in Requests, completion \in Completions : Completion(r, completion)
  \/ \E r \in Requests, err \in LlmErrors : CompletionFails(r, err)
  \/ \E r \in Requests : CacheSet(r)
  \/ \E r \in Requests : CacheSetFails(r)
  \/ \E id \in DeleteIds : Delete(id)

Spec == Init /\ [][Next]_vars

\* The texts a completion can carry
CompletionTexts == { c.choices[1] : c \in { d \in Completions : d.choices # <<>> } }

\* What extraction, repair and parsing, and normalization make of each text,
\* step by step
StepByStep(text) ==
  IF extractJSONBlock(text).threw THEN Throw("extraction")
  ELSE IF JSONparse(preRepairJSON(extractJSONBlock(text).val.s)).threw
  THEN Throw("parsing")
  ELSE IF normalizeRoadmap(JSONparse(preRepairJSON(extractJSONBlock(text).val.s)).val).threw
  THEN Throw("normalization")
  ELSE Return(normalizeRoadmap(JSONparse(preRepairJSON(
                extractJSONBlock(text).val.s)).val).val)

\* The texts on which one of the three fails, and for the others the
\* document that normalization returns
FailingTexts == { text \in CompletionTexts : StepByStep(text).threw }
Normalized == { <<text, StepByStep(text).val>> : text \in CompletionTexts \ FailingTexts }

\* Extraction, repair and parsing, or normalization, of the model's text
\* fails.
PipelineFails(text) == text \in FailingTexts

\* The request has been through the inner try.
Tried(q) == q.called /\ q.text # Undefined

C3_State ==
  \A r \in Requests :
    /\ (Tried(req[r]) /\ PipelineFails(req[r].text)) =>
         /\ req[r].pc = "done"
         /\ req[r].status = 500
         /\ req[r].body = ErrorBody("BAD_LLM_JSON")
         /\ ~req[r].wrote
    /\ req[r].wrote =>
         /\ Tried(req[r]) /\ ~PipelineFails(req[r].text)
         /\ req[r].status = 200
         /\ <<req[r].text, req[r].body>> \in Normalized

C3_Step ==
  \A k \in Keys :
    (cache'[k] # cache[k] /\ cache'[k].exists) =>
      \E r \in Requests :
        /\ req[r].key = k
        /\ req[r].outcome = "ok" /\ ~req[r].wrote /\ req'[r].wrote
        /\ req'[r].pc = "done" /\ req'[r].status = 200
        /\ cache'[k].data = req'[r].body

\* C3: in POST /api/roadmap, whenever extraction, repair/parsing or
\* normalization of the model's text fails, the request ends with the single
\* BAD_LLM_JSON response, which carries no document, and writes nothing to
\* the cache; the cache is written only after normalization succeeded, and
\* with the document that is returned to the caller.
C3_BadLlmJson == []C3_State /\ [][C3_Step]_vars

\* One request ended BAD_LLM_JSON on a text whose normalization threw
\* halfway through the phases, another stored and returned its document.
C3_Witness ==
  /\ req[1].text = CompletionNullPhase
  /\ req[1].body = ErrorBody("BAD_LLM_JSON")
  /\ req[2].wrote
  /\ cache[req[2].key] = Stored(req[2].goal, req[2].body)

C10_State ==
  /\ \A r \in Requests :
       req[r].hit =>
         /\ req[r].pc = "done" /\ req[r].status = 200
         /\ ~req[r].called /\ ~req[r].wrote
  /\ \A k \in Keys : cache[k].exists => <<k, cache[k].data>> \in made

C10_Step ==
  \A r \in Requests :
    (~req[r].hit /\ req'[r].hit) =>
      /\ cache[req[r].key].exists
      /\ req'[r].body = cache[req[r].key].data
      /\ cache' = cache

\* C10: in any interleaving of POST and DELETE requests, a POST that finds a
\* cache entry for its key responds with exactly the stored document and
\* neither calls the model nor writes the cache; and every value stored in
\* the cache under a key came out of a successful normalizeRoadmap call of a
\* request for that key.
C10_CacheHit == []C10_State /\ [][C10_Step]_vars

\* A request served from the cache what a request with another goal of the
\* same key had stored, the entry deleted since.
C10_Witness ==
  /\ req[1].wrote
  /\ req[2].hit /\ req[2].body = req[1].json
  /\ req[2].goal # req[1].goal
  /\ ~cache[req[2].key].exists

====
